---- MODULE Spec2Model ----
(***************************************************************************)
(* Model of the lead repository of src/lead_management.py (LeadManager,    *)
(* Lead, ScoringCriteria).                                                 *)
(*                                                                         *)
(* Representation                                                          *)
(*  - A Python str on which the code does character work (email, title,    *)
(*    pain points) is a tuple of one-character strings; the other strings  *)
(*    are TLA+ strings.  A falsy str (None or "") is the empty one.        *)
(*  - Optional[int] is a sequence: <<>> is None, <<n>> is the integer n.   *)
(*  - Weights are integers in units of 1/WeightUnit (0.25 is 2500).        *)
(*  - Scores and thresholds are integers in hundredths (95.5 is 9550), the *)
(*    grid round(score, 2) writes to.                                      *)
(*  - Timestamps and uuid4 values are abstracted: a timestamp field holds  *)
(*    "None" or "str" (the Python type that is stored), a generated id is  *)
(*    an id that no stored lead has.                                       *)
(***************************************************************************)
EXTENDS Integers, Sequences, FiniteSets, TLC

(***************************************************************************)
(* Bounds of the model.                                                    *)
(***************************************************************************)
MaxLeads == 2
MaxInteractions == 1

(***************************************************************************)
(* Units.                                                                  *)
(***************************************************************************)
WeightUnit == 10000
ScoreUnit == 100

(***************************************************************************)
(* Strings as character tuples: str.lower(), substring test, ' '.join.     *)
(***************************************************************************)
UpperCase ==
  <<"A","B","C","D","E","F","G","H","I","J","K","L","M",
    "N","O","P","Q","R","S","T","U","V","W","X","Y","Z">>

LowerCase ==
  <<"a","b","c","d","e","f","g","h","i","j","k","l","m",
    "n","o","p","q","r","s","t","u","v","w","x","y","z">>

LowerChar(c) ==
  IF \E i \in 1..Len(UpperCase) : UpperCase[i] = c
  THEN LowerCase[CHOOSE i \in 1..Len(UpperCase) : UpperCase[i] = c]
  ELSE c

Lower(s) == [i \in 1..Len(s) |-> LowerChar(s[i])]

Contains(s, sub) ==
  \E k \in 0..(Len(s) - Len(sub)) :
     \A j \in 1..Len(sub) : s[k + j] = sub[j]

RECURSIVE JoinSpace(_)
JoinSpace(strs) ==
  IF strs = <<>> THEN <<>>
  ELSE IF Len(strs) = 1 THEN strs[1]
  ELSE strs[1] \o <<" ">> \o JoinSpace(Tail(strs))

Min(a, b) == IF a <= b THEN a ELSE b

Abs(x) == IF x < 0 THEN -x ELSE x

(* A value held by an Optional[int] field: <<>> is None, <<n>> the int n,   *)
(* and <<"str", t>> the str t, which the dataclass accepts unchecked.      *)
IsStr(opt) == Len(opt) = 2

(* Optional[int] truthiness: None, 0 and '' are falsy. *)
Truthy(opt) ==
  /\ opt # <<>>
  /\ IF IsStr(opt) THEN opt[2] # "" ELSE opt[1] # 0

(***************************************************************************)
(* ScoringCriteria                                                         *)
(***************************************************************************)
Tolerance == 10

ScoringCriteria(cw, bw, aw, nw, tw, qt, ht) ==
  [company_size_weight |-> cw, budget_weight |-> bw, authority_weight |-> aw,
   need_weight |-> nw, timeline_weight |-> tw,
   qualified_threshold |-> qt, hot_lead_threshold |-> ht]

DefaultCriteria == ScoringCriteria(2500, 3000, 2000, 1500, 1000, 7000, 8500)

(* validate_weights comparing the signed difference, without abs(). *)
validate_weights_signed(c) ==
  LET total == c.company_size_weight + c.budget_weight + c.authority_weight
               + c.need_weight + c.timeline_weight
  IN  total - WeightUnit < Tolerance

validate_weights(c) ==
  LET total == c.company_size_weight + c.budget_weight + c.authority_weight
               + c.need_weight + c.timeline_weight
  IN  Abs(total - WeightUnit) < Tolerance

(***************************************************************************)
(* Sub-scores (whole points, 0..100).                                      *)
(***************************************************************************)
score_company_size(company_size) ==
  IF ~Truthy(company_size) THEN 50
  ELSE LET n == company_size[1] IN
       IF n >= 1000 THEN 100
       ELSE IF n >= 500 THEN 85
       ELSE IF n >= 100 THEN 70
       ELSE IF n >= 50 THEN 55
       ELSE IF n >= 10 THEN 40
       ELSE 25

BudgetBand(n) ==
  IF n >= 100000 THEN 100
  ELSE IF n >= 50000 THEN 80
  ELSE IF n >= 25000 THEN 60
  ELSE IF n >= 10000 THEN 40
  ELSE 20

(* int(x): truncation toward zero. *)
IntTrunc(num, den) == IF num >= 0 THEN num \div den ELSE -((-num) \div den)

(* The recursive call passes (int(annual_revenue * 0.05), None): it either *)
(* bands a non-zero estimate or, the estimate being 0, falls to the 30.    *)
score_budget(budget, annual_revenue) ==
  IF Truthy(budget) THEN BudgetBand(budget[1])
  ELSE IF Truthy(annual_revenue)
       THEN LET estimated_budget == IntTrunc(annual_revenue[1] * 5, 100)
            IN  IF estimated_budget # 0 THEN BudgetBand(estimated_budget)
                ELSE 30
       ELSE 30

CLevelWords ==
  { <<"c","e","o">>, <<"c","t","o">>, <<"c","f","o">>, <<"c","m","o">>,
    <<"p","r","e","s","i","d","e","n","t">> }

DirectorWords ==
  { <<"d","i","r","e","c","t","o","r">>, <<"v","p">>,
    <<"v","i","c","e"," ","p","r","e","s","i","d","e","n","t">> }

ManagerWord == <<"m","a","n","a","g","e","r">>

SeniorWord == <<"s","e","n","i","o","r">>

score_authority(is_decision_maker, title) ==
  IF is_decision_maker THEN 100
  ELSE IF title = <<>> THEN 40
  ELSE LET title_lower == Lower(title) IN
       IF \E w \in CLevelWords : Contains(title_lower, w) THEN 95
       ELSE IF \E w \in DirectorWords : Contains(title_lower, w) THEN 80
       ELSE IF Contains(title_lower, ManagerWord) THEN 65
       ELSE IF Contains(title_lower, SeniorWord) THEN 50
       ELSE 35

high_value_keywords ==
  { <<"e","f","f","i","c","i","e","n","c","y">>, <<"c","o","s","t">>,
    <<"r","e","v","e","n","u","e">>, <<"g","r","o","w","t","h">>,
    <<"s","c","a","l","e">>,
    <<"c","o","m","p","e","t","i","t","i","o","n">>,
    <<"m","a","n","u","a","l">>, <<"t","i","m","e">>,
    <<"e","r","r","o","r">> }

score_need(pain_points) ==
  IF pain_points = <<>> THEN 30
  ELSE LET base_score == Min(Len(pain_points) * 25, 100)
           pain_text == Lower(JoinSpace(pain_points))
           keyword_matches ==
             Cardinality({k \in high_value_keywords : Contains(pain_text, k)})
           bonus == Min(keyword_matches * 10, 30)
       IN  Min(base_score + bonus, 100)

score_timeline(timeline) ==
  IF timeline = <<>> \/ timeline[1] = "" THEN 40
  ELSE IF timeline[1] = "immediate" THEN 100
  ELSE IF timeline[1] = "3_months" THEN 80
  ELSE IF timeline[1] = "6_months" THEN 60
  ELSE IF timeline[1] = "next_year" THEN 30
  ELSE 40

(***************************************************************************)
(* round(score, 2): the weighted sum, in units of 1/WeightUnit of a point, *)
(* to the nearest hundredth of a point, ties to the even hundredth.        *)
(***************************************************************************)
Round2(x) ==
  LET d == WeightUnit \div ScoreUnit
      q == x \div d
      r == x % d
  IN  IF 2 * r > d THEN q + 1
      ELSE IF 2 * r < d THEN q
      ELSE IF q % 2 = 0 THEN q ELSE q + 1

(* The weighted sum with the company-size and budget weights exchanged. *)
WeightedSum_weights_swapped(lead, c) ==
    score_company_size(lead.company_size) * c.budget_weight
  + score_budget(lead.budget, lead.annual_revenue) * c.company_size_weight
  + score_authority(lead.decision_maker, lead.title) * c.authority_weight
  + score_need(lead.pain_points) * c.need_weight
  + score_timeline(lead.timeline) * c.timeline_weight

WeightedSum(lead, c) ==
    score_company_size(lead.company_size) * c.company_size_weight
  + score_budget(lead.budget, lead.annual_revenue) * c.budget_weight
  + score_authority(lead.decision_maker, lead.title) * c.authority_weight
  + score_need(lead.pain_points) * c.need_weight
  + score_timeline(lead.timeline) * c.timeline_weight

(* qualify_lead raises TypeError, before it writes anything, when a        *)
(* sub-score compares or multiplies a non-empty str: company_size >= 1000, *)
(* budget >= 100000, annual_revenue * 0.05.                                *)
qualify_raises(lead) ==
  \/ IsStr(lead.company_size) /\ Truthy(lead.company_size)
  \/ IsStr(lead.budget) /\ Truthy(lead.budget)
  \/ /\ ~Truthy(lead.budget)
     /\ IsStr(lead.annual_revenue) /\ Truthy(lead.annual_revenue)

(* qualify_lead deriving the status from the score whatever the status. *)
qualify_lead_any_status(lead, c) ==
  LET qualification_score == Round2(WeightedSum(lead, c))
  IN  [lead EXCEPT !.qualification_score = qualification_score,
                   !.status = IF qualification_score >= c.qualified_threshold
                              THEN "qualified" ELSE "unqualified"]

(* qualify_lead on the stored lead: writes the score and, for a NEW lead,  *)
(* the status.                                                             *)
qualify_lead(lead, c) ==
  LET qualification_score == Round2(WeightedSum(lead, c))
      status == IF lead.status = "new"
                THEN IF qualification_score >= c.qualified_threshold
                     THEN "qualified" ELSE "unqualified"
                ELSE lead.status
  IN  [lead EXCEPT !.qualification_score = qualification_score,
                   !.status = status]

(***************************************************************************)
(* Lead properties (thresholds are literals of the class).                 *)
(***************************************************************************)
is_qualified(lead) == lead.qualification_score >= 7000

is_hot_lead(lead) == lead.qualification_score >= 8500

(***************************************************************************)
(* LeadStatus, LeadSource.  A member is written by its value ("new" is     *)
(* LeadStatus.NEW); the str a member has as its value, and any other str   *)
(* held where a member is expected, is written with its quotes ("'new'").  *)
(***************************************************************************)
LeadStatusMembers ==
  {"new", "qualified", "contacted", "meeting_scheduled", "proposal_sent",
   "closed_won", "closed_lost", "unqualified"}

LeadSourceMembers ==
  {"website", "linkedin", "email_campaign", "referral", "cold_outreach",
   "trade_show", "webinar", "other"}

(* member.value *)
Value(member) == "'" \o member \o "'"

(* The strs LeadStatus(...) and LeadSource(...) accept. *)
LeadStatusValues == {Value(member) : member \in LeadStatusMembers}

LeadSourceValues == {Value(member) : member \in LeadSourceMembers}

(***************************************************************************)
(* Lead: the dataclass with its defaults.  Ids are positive integers, each *)
(* standing for a distinct non-empty id string; NoId is the empty id.      *)
(***************************************************************************)
NoId == 0

LeadIds == 1..MaxLeads

Lead(id, first_name, last_name, email, company) ==
  [first_name |-> first_name, last_name |-> last_name, email |-> email,
   company |-> company, title |-> <<>>,
   lead_source |-> "other", status |-> "new",
   created_at |-> "None", updated_at |-> "None",
   company_size |-> <<>>, annual_revenue |-> <<>>, budget |-> <<>>,
   decision_maker |-> FALSE, pain_points |-> <<>>, timeline |-> <<>>,
   qualification_score |-> 0, notes |-> "",
   id |-> id, last_contacted |-> "None"]

(***************************************************************************)
(* Inputs of the operations.                                               *)
(***************************************************************************)
EmailLower == <<"a","@","x">>
EmailUpper == <<"A","@","X">>
EmailOther == <<"b","@","x">>

Emails == {EmailLower, EmailUpper, EmailOther}

(* No optional field set. *)
ColdLead(id, email) == Lead(id, "Ann", "Lee", email, "Acme")

(* Decision maker, budget 120000, 1200 employees, two pain points,         *)
(* immediate timeline.                                                     *)
HotLead(id, email) ==
  [Lead(id, "Bob", "Ray", email, "Initech") EXCEPT
     !.decision_maker = TRUE, !.budget = <<120000>>,
     !.company_size = <<1200>>,
     !.pain_points =
        << <<"m","a","n","u","a","l"," ","p","r","o","c","e","s","s","e","s">>,
           <<"c","o","s","t"," ","o","p","t","i","m","i","z","a","t","i","o","n">> >>,
     !.timeline = <<"immediate">>]

(* A blank required field. *)
BlankNameLead(id, email) == Lead(id, "", "Lee", email, "Acme")

TitleCEO == <<"C","E","O">>

(* Weights 0.1/0.1/0.1/0.1/0.6 and thresholds 30/35. *)
FlatCriteria == ScoringCriteria(1000, 1000, 1000, 1000, 6000, 3000, 3500)

(* Weights 2.0/-1.0/0/0/0: they sum to 1.0. *)
SkewCriteria == ScoringCriteria(20000, -10000, 0, 0, 0, 7000, 8500)

(* Weights summing to 0.9. *)
ShortCriteria == ScoringCriteria(2500, 3000, 2000, 1500, 0, 7000, 8500)

(* Weights summing to 1.0011 and to 1.0009, either side of the tolerance. *)
OverCriteria == ScoringCriteria(2500, 3000, 2000, 1500, 1011, 7000, 8500)

NearCriteria == ScoringCriteria(2500, 3000, 2000, 1500, 1009, 7000, 8500)

(***************************************************************************)
(* State.                                                                  *)
(*   pc                  "new" before LeadManager(...), "ready" once it    *)
(*                       returned, "raised" when __init__ raised           *)
(*   leads               self.leads: id -> Lead                            *)
(*   order               the insertion order of the keys of self.leads     *)
(*   scoring_criteria    self.scoring_criteria                             *)
(*   interaction_history self.interaction_history: id -> list              *)
(*   lastOp              the last call and how it ended                    *)
(***************************************************************************)
VARIABLES pc, leads, order, scoring_criteria, interaction_history, lastOp

vars == <<pc, leads, order, scoring_criteria, interaction_history, lastOp>>

Call(op, id, arg, result, message) ==
  [op |-> op, id |-> id, arg |-> arg, result |-> result, message |-> message]

Init ==
  /\ pc = "new"
  /\ leads = <<>>
  /\ order = <<>>
  /\ scoring_criteria = DefaultCriteria
  /\ interaction_history = <<>>
  /\ lastOp = Call("none", NoId, <<>>, "None", "")

(***************************************************************************)
(* dict helpers: d[k] = v keeps the position of a key already present and  *)
(* appends a new key; del d[k] removes it.                                 *)
(***************************************************************************)
Put(d, k, v) == [x \in DOMAIN d \cup {k} |-> IF x = k THEN v ELSE d[x]]

Del(d, k) == [x \in DOMAIN d \ {k} |-> d[x]]

KeysPut(keys, k) ==
  IF \E i \in 1..Len(keys) : keys[i] = k THEN keys ELSE Append(keys, k)

KeysDel(keys, k) == SelectSeq(keys, LAMBDA x : x # k)

(* self.leads.values(), in insertion order. *)
Values == [i \in 1..Len(order) |-> leads[order[i]]]

(***************************************************************************)
(* LeadManager.__init__                                                    *)
(***************************************************************************)
NoCriteria == <<>>

(* __init__ without the validate_weights() check. *)
Construct_unchecked(criteria) ==
  /\ pc = "new"
  /\ leads' = <<>>
  /\ order' = <<>>
  /\ interaction_history' = <<>>
  /\ scoring_criteria' =
       IF criteria = NoCriteria THEN DefaultCriteria ELSE criteria
  /\ pc' = "ready"
  /\ lastOp' = Call("__init__", NoId, criteria, "None", "")

Construct(criteria) ==
  /\ pc = "new"
  /\ leads' = <<>>
  /\ order' = <<>>
  /\ interaction_history' = <<>>
  /\ scoring_criteria' =
       IF criteria = NoCriteria THEN DefaultCriteria ELSE criteria
  /\ IF validate_weights(scoring_criteria')
     THEN /\ pc' = "ready"
          /\ lastOp' = Call("__init__", NoId, criteria, "None", "")
     ELSE /\ pc' = "raised"
          /\ lastOp' = Call("__init__", NoId, criteria, "ValueError",
                            "Scoring criteria weights must sum to 1.0")

(***************************************************************************)
(* The repository an operation works on: self.leads with its key order,    *)
(* and self.interaction_history.                                           *)
(***************************************************************************)
Repo ==
  [leads |-> leads, order |-> order, interaction_history |-> interaction_history]

(***************************************************************************)
(* find_lead_by_email: the key of the first stored lead whose lower-cased  *)
(* email equals the lower-cased argument, NoId for None.                   *)
(***************************************************************************)
find_lead(repo, email) ==
  LET hits == {i \in 1..Len(repo.order) :
                 Lower(repo.leads[repo.order[i]].email) = Lower(email)}
  IN  IF hits = {} THEN NoId
      ELSE repo.order[CHOOSE i \in hits : \A j \in hits : i <= j]

find_lead_by_email(email) == find_lead(Repo, email)

(* str(uuid.uuid4()): an id no stored lead has. *)
FreshIds == LeadIds \ DOMAIN leads

uuid4_not_in(stored) ==
  CHOOSE i \in LeadIds \ DOMAIN stored :
     \A j \in LeadIds \ DOMAIN stored : i <= j

uuid4 == uuid4_not_in(leads)

(***************************************************************************)
(* add_lead                                                                *)
(***************************************************************************)
NoError == [kind |-> "None", message |-> ""]

(* The exception add_lead raises for this lead on this repository. *)
add_lead_error(repo, lead) ==
  IF lead.first_name = "" \/ lead.last_name = "" \/ lead.email = <<>>
     \/ lead.company = ""
  THEN [kind |-> "ValueError",
        message |-> "Lead must have first_name, last_name, email, and company"]
  ELSE IF find_lead(repo, lead.email) # NoId
  THEN [kind |-> "ValueError", message |-> "Lead with email already exists"]
  ELSE NoError

add_error(lead) == add_lead_error(Repo, lead)

(* add_lead on a repository under criteria c: the repository it leaves,    *)
(* the id of the lead, and how the call ended ("id" when it returned the   *)
(* id).  The lead and its empty log are stored before the lead is scored.  *)
add_lead_on(repo, lead, c) ==
  LET id == IF lead.id = NoId THEN uuid4_not_in(repo.leads) ELSE lead.id
      stored == [lead EXCEPT !.id = id, !.updated_at = "str"]
      error == add_lead_error(repo, lead)
      kept == [leads |-> Put(repo.leads, id, stored),
               order |-> KeysPut(repo.order, id),
               interaction_history |-> Put(repo.interaction_history, id, <<>>)]
  IN  IF error # NoError
      THEN [repo |-> repo, id |-> id, result |-> error.kind,
            message |-> error.message]
      ELSE IF qualify_raises(stored)
      THEN [repo |-> kept, id |-> id, result |-> "TypeError", message |-> ""]
      ELSE [repo |-> [kept EXCEPT !.leads = Put(repo.leads, id,
                                                 qualify_lead(stored, c))],
            id |-> id, result |-> "id", message |-> ""]

add_lead(lead) ==
  /\ pc = "ready"
  /\ lead.id = NoId => FreshIds # {}
  /\ \E out \in {add_lead_on(Repo, lead, scoring_criteria)} :
         /\ leads' = out.repo.leads
         /\ order' = out.repo.order
         /\ interaction_history' = out.repo.interaction_history
         /\ lastOp' = Call("add_lead", out.id, lead, out.result, out.message)
  /\ UNCHANGED <<pc, scoring_criteria>>

(***************************************************************************)
(* update_lead                                                             *)
(***************************************************************************)
(* The trigger set without 'budget'. *)
qualification_fields_without_budget ==
  {"company_size", "annual_revenue", "decision_maker", "timeline", "pain_points"}

qualification_fields ==
  {"company_size", "annual_revenue", "budget",
   "decision_maker", "timeline", "pain_points"}

(* setattr for every key the lead has as an attribute. *)
SetAttrs(lead, updates) ==
  [f \in DOMAIN lead |-> IF f \in DOMAIN updates THEN updates[f] ELSE lead[f]]

update_lead(lead_id, updates) ==
  /\ pc = "ready"
  /\ IF lead_id \notin DOMAIN leads
     THEN /\ lastOp' = Call("update_lead", lead_id, updates, "False", "")
          /\ UNCHANGED leads
     ELSE LET lead == [SetAttrs(leads[lead_id], updates)
                         EXCEPT !.updated_at = "str"]
              rescored == (DOMAIN updates) \cap qualification_fields # {}
          IN  IF rescored /\ qualify_raises(lead)
              THEN /\ leads' = [leads EXCEPT ![lead_id] = lead]
                   /\ lastOp' = Call("update_lead", lead_id, updates,
                                     "TypeError", "")
              ELSE /\ leads' =
                        [leads EXCEPT ![lead_id] =
                           IF rescored
                           THEN qualify_lead(lead, scoring_criteria)
                           ELSE lead]
                   /\ lastOp' = Call("update_lead", lead_id, updates,
                                     "True", "")
  /\ UNCHANGED <<pc, order, scoring_criteria, interaction_history>>

(***************************************************************************)
(* delete_lead                                                             *)
(***************************************************************************)
(* delete_lead returning True whether or not the id was stored. *)
delete_lead_returns_true(lead_id) ==
  /\ pc = "ready"
  /\ leads' = Del(leads, lead_id)
  /\ order' = KeysDel(order, lead_id)
  /\ interaction_history' = Del(interaction_history, lead_id)
  /\ lastOp' = Call("delete_lead", lead_id, <<>>, "True", "")
  /\ UNCHANGED <<pc, scoring_criteria>>

delete_lead(lead_id) ==
  /\ pc = "ready"
  /\ IF lead_id \in DOMAIN leads
     THEN /\ leads' = Del(leads, lead_id)
          /\ order' = KeysDel(order, lead_id)
          /\ interaction_history' =
               IF lead_id \in DOMAIN interaction_history
               THEN Del(interaction_history, lead_id)
               ELSE interaction_history
          /\ lastOp' = Call("delete_lead", lead_id, <<>>, "True", "")
     ELSE /\ lastOp' = Call("delete_lead", lead_id, <<>>, "False", "")
          /\ UNCHANGED <<leads, order, interaction_history>>
  /\ UNCHANGED <<pc, scoring_criteria>>

(***************************************************************************)
(* add_interaction                                                         *)
(***************************************************************************)
add_interaction(lead_id, interaction_type) ==
  /\ pc = "ready"
  /\ IF lead_id \notin DOMAIN leads
     THEN /\ lastOp' = Call("add_interaction", lead_id,
                            [type |-> interaction_type], "False", "")
          /\ UNCHANGED <<leads, interaction_history>>
     ELSE /\ Len(interaction_history[lead_id]) < MaxInteractions
          /\ interaction_history' =
               [interaction_history EXCEPT ![lead_id] =
                  Append(@, [type |-> interaction_type, details |-> "details"])]
          /\ leads' =
               IF interaction_type \in {"email", "call", "meeting"}
               THEN [leads EXCEPT ![lead_id].last_contacted = "str"]
               ELSE leads
          /\ lastOp' = Call("add_interaction", lead_id,
                            [type |-> interaction_type], "True", "")
  /\ UNCHANGED <<pc, order, scoring_criteria>>

(***************************************************************************)
(* update_scoring_criteria                                                 *)
(***************************************************************************)
(* update_scoring_criteria replacing the criteria without the re-scoring   *)
(* loop.                                                                   *)
update_scoring_criteria_no_rescore(new_criteria) ==
  /\ pc = "ready"
  /\ IF ~validate_weights(new_criteria)
     THEN /\ lastOp' = Call("update_scoring_criteria", NoId, new_criteria,
                            "False", "")
          /\ UNCHANGED <<leads, scoring_criteria>>
     ELSE /\ scoring_criteria' = new_criteria
          /\ lastOp' = Call("update_scoring_criteria", NoId, new_criteria,
                            "True", "")
          /\ UNCHANGED leads
  /\ UNCHANGED <<pc, order, interaction_history>>

update_scoring_criteria(new_criteria) ==
  /\ pc = "ready"
  /\ IF ~validate_weights(new_criteria)
     THEN /\ lastOp' = Call("update_scoring_criteria", NoId, new_criteria,
                            "False", "")
          /\ UNCHANGED <<leads, scoring_criteria>>
     ELSE /\ scoring_criteria' = new_criteria
          /\ IF \A id \in DOMAIN leads : ~qualify_raises(leads[id])
             THEN /\ leads' = [id \in DOMAIN leads |->
                                 qualify_lead(leads[id], new_criteria)]
                  /\ lastOp' = Call("update_scoring_criteria", NoId,
                                    new_criteria, "True", "")
             ELSE \E first \in 1..Len(order) :
                  /\ qualify_raises(leads[order[first]])
                  /\ \A j \in 1..(first - 1) :
                        ~qualify_raises(leads[order[j]])
                  /\ leads' = [id \in DOMAIN leads |->
                                 IF \E j \in 1..(first - 1) : order[j] = id
                                 THEN qualify_lead(leads[id], new_criteria)
                                 ELSE leads[id]]
                  /\ lastOp' = Call("update_scoring_criteria", NoId,
                                    new_criteria, "TypeError", "")
  /\ UNCHANGED <<pc, order, interaction_history>>

(***************************************************************************)
(* Queries.                                                                *)
(***************************************************************************)
get_qualified_leads == SelectSeq(Values, is_qualified)

get_hot_leads == SelectSeq(Values, is_hot_lead)

get_leads_by_status(status) == SelectSeq(Values, LAMBDA l : l.status = status)

(* get_pipeline_summary()['status_breakdown']: a count per LeadStatus. *)
status_breakdown ==
  [status \in LeadStatusMembers |-> Len(get_leads_by_status(status))]

(***************************************************************************)
(* create_lead_objects_from_data.  A raw record is a dict: a function from *)
(* keys to values, its str values for lead_source and status written with  *)
(* their quotes.                                                           *)
(***************************************************************************)
MaxBatch == 3

(* data.get(key, default) *)
Get(data, key, default) == IF key \in DOMAIN data THEN data[key] ELSE default

(* The exception the enum look-ups and the Lead(...) call raise for a      *)
(* record: ValueError for a lead_source or status that is no member's      *)
(* value, KeyError for a missing required key.                             *)
data_error(data) ==
  IF Get(data, "lead_source", Value("other")) \notin LeadSourceValues
  THEN [kind |-> "ValueError", message |-> "is not a valid LeadSource"]
  ELSE IF Get(data, "status", Value("new")) \notin LeadStatusValues
  THEN [kind |-> "ValueError", message |-> "is not a valid LeadStatus"]
  ELSE IF ~({"first_name", "last_name", "email", "company"} \subseteq DOMAIN data)
  THEN [kind |-> "KeyError", message |-> ""]
  ELSE NoError

(* The Lead(...) the loop builds: lead_source and status are the record's  *)
(* strs, not the members looked up from them.                              *)
lead_from_data(data) ==
  [Lead(NoId, data.first_name, data.last_name, data.email, data.company)
     EXCEPT !.title = Get(data, "title", <<>>),
            !.lead_source = Get(data, "lead_source", Value("other")),
            !.status = Get(data, "status", Value("new")),
            !.company_size = Get(data, "company_size", <<>>),
            !.annual_revenue = Get(data, "annual_revenue", <<>>),
            !.budget = Get(data, "budget", <<>>),
            !.decision_maker = Get(data, "decision_maker", FALSE),
            !.pain_points = Get(data, "pain_points", <<>>),
            !.timeline = Get(data, "timeline", <<>>),
            !.notes = Get(data, "notes", "")]

(* The loop that returns at the first record that raises. *)
RECURSIVE ingest_until_error(_, _, _, _)
ingest_until_error(repo, lead_ids, synthetic_data, c) ==
  IF synthetic_data = <<>> THEN [repo |-> repo, lead_ids |-> lead_ids]
  ELSE LET data == Head(synthetic_data)
           out == add_lead_on(repo, lead_from_data(data), c)
       IN  IF data_error(data) # NoError
           THEN [repo |-> repo, lead_ids |-> lead_ids]
           ELSE IF out.result # "id"
           THEN [repo |-> out.repo, lead_ids |-> lead_ids]
           ELSE ingest_until_error(out.repo, Append(lead_ids, out.id),
                                   Tail(synthetic_data), c)

(* The loop over the records still to come: a record that raises is left   *)
(* out of lead_ids and the loop continues with what add_lead left of the   *)
(* repository.                                                             *)
RECURSIVE ingest(_, _, _, _)
ingest(repo, lead_ids, synthetic_data, c) ==
  IF synthetic_data = <<>> THEN [repo |-> repo, lead_ids |-> lead_ids]
  ELSE LET data == Head(synthetic_data)
           out == add_lead_on(repo, lead_from_data(data), c)
       IN  IF data_error(data) # NoError
           THEN ingest(repo, lead_ids, Tail(synthetic_data), c)
           ELSE IF out.result # "id"
           THEN ingest(out.repo, lead_ids, Tail(synthetic_data), c)
           ELSE ingest(out.repo, Append(lead_ids, out.id),
                       Tail(synthetic_data), c)

(* The records for which a Lead is built and handed to add_lead. *)
Built(synthetic_data) ==
  {i \in 1..Len(synthetic_data) : data_error(synthetic_data[i]) = NoError}

create_lead_objects_from_data(synthetic_data) ==
  /\ pc = "ready"
  /\ Cardinality(Built(synthetic_data)) <= Cardinality(FreshIds)
  /\ \E out \in {ingest(Repo, <<>>, synthetic_data, scoring_criteria)} :
         /\ leads' = out.repo.leads
         /\ order' = out.repo.order
         /\ interaction_history' = out.repo.interaction_history
         /\ lastOp' = Call("create_lead_objects_from_data", NoId,
                           [synthetic_data |-> synthetic_data,
                            lead_ids |-> out.lead_ids], "list", "")
  /\ UNCHANGED <<pc, scoring_criteria>>

(***************************************************************************)
(* export_leads_json                                                       *)
(***************************************************************************)
(* Building a lead's entry raises AttributeError when lead_source or       *)
(* status is no enum member (.value), when created_at or updated_at is     *)
(* None or a str (.isoformat()), or when last_contacted is a str.          *)
export_raises(lead) ==
  \/ lead.lead_source \notin LeadSourceMembers
  \/ lead.status \notin LeadStatusMembers
  \/ lead.created_at # "datetime"
  \/ lead.updated_at # "datetime"
  \/ lead.last_contacted \notin {"None", "datetime"}

(* The entry of a lead in export_data['leads']. *)
export_entry(lead) ==
  [first_name |-> lead.first_name, last_name |-> lead.last_name,
   email |-> lead.email, company |-> lead.company, title |-> lead.title,
   lead_source |-> Value(lead.lead_source), status |-> Value(lead.status),
   created_at |-> "str", updated_at |-> "str",
   company_size |-> lead.company_size,
   annual_revenue |-> lead.annual_revenue, budget |-> lead.budget,
   decision_maker |-> lead.decision_maker, pain_points |-> lead.pain_points,
   timeline |-> lead.timeline,
   qualification_score |-> lead.qualification_score, notes |-> lead.notes,
   last_contacted |-> IF lead.last_contacted = "None" THEN "None" ELSE "str"]

export_leads_json ==
  /\ pc = "ready"
  /\ IF \E k \in DOMAIN leads : export_raises(leads[k])
     THEN lastOp' = Call("export_leads_json", NoId, [leads |-> <<>>],
                         "AttributeError", "")
     ELSE lastOp' = Call("export_leads_json", NoId,
                         [leads |-> [k \in DOMAIN leads |->
                                       export_entry(leads[k])],
                          scoring_criteria |-> scoring_criteria],
                         "str", "")
  /\ UNCHANGED <<pc, leads, order, scoring_criteria, interaction_history>>

(***************************************************************************)
(* Specification.                                                          *)
(***************************************************************************)
(* Repository operations over leads that differ in id and email. *)
RepoLeadInputs ==
  { ColdLead(i, e) : <<i, e>> \in (LeadIds \cup {NoId}) \X Emails }
  \cup { BlankNameLead(NoId, EmailOther), Lead(NoId, "Ann", "Lee", <<>>, "Acme") }

RepoUpdateInputs == { [email |-> EmailUpper], [email |-> EmailOther],
                      [nickname |-> "Bo"] }

Next ==
  \/ \E c \in {NoCriteria, ShortCriteria} : Construct(c)
  \/ \E lead \in RepoLeadInputs : add_lead(lead)
  \/ \E id \in LeadIds, u \in RepoUpdateInputs : update_lead(id, u)
  \/ \E id \in LeadIds : delete_lead(id)
  \/ \E id \in LeadIds : add_interaction(id, "email")
  \/ \E c \in {DefaultCriteria, ShortCriteria} : update_scoring_criteria(c)

Spec == Init /\ [][Next]_vars

(* Scoring under changing criteria: leads with and without qualification  *)
(* data, criteria on either side of the weight tolerance.                  *)
ScoringLeadInputs ==
  UNION { {ColdLead(NoId, e), HotLead(NoId, e)} : e \in {EmailLower, EmailOther} }

ScoringUpdateInputs == { [budget |-> <<60000>>], [qualification_score |-> 15000] }

ScoringCriteriaInputs ==
  { DefaultCriteria, FlatCriteria, SkewCriteria, ShortCriteria, OverCriteria,
    NearCriteria }

NextScoring ==
  \/ \E c \in {NoCriteria, FlatCriteria, ShortCriteria} : Construct(c)
  \/ \E lead \in ScoringLeadInputs : add_lead(lead)
  \/ \E id \in LeadIds, u \in ScoringUpdateInputs : update_lead(id, u)
  \/ \E c \in ScoringCriteriaInputs : update_scoring_criteria(c)

SpecScoring == Init /\ [][NextScoring]_vars

(* Re-scoring of leads whose status was set by hand. *)
StatusUpdateInputs ==
  { [status |-> "new"], [status |-> "contacted"], [budget |-> <<60000>>],
    [status |-> "new", budget |-> <<60000>>] }

NextStatus ==
  \/ \E c \in {NoCriteria, ShortCriteria} : Construct(c)
  \/ \E lead \in ScoringLeadInputs : add_lead(lead)
  \/ \E id \in LeadIds, u \in StatusUpdateInputs : update_lead(id, u)
  \/ \E c \in {DefaultCriteria, FlatCriteria} : update_scoring_criteria(c)

SpecStatus == Init /\ [][NextStatus]_vars

(* Field updates, with and without qualification fields among the keys. *)
FieldUpdateInputs ==
  { [notes |-> "called"], [budget |-> <<60000>>],
    [budget |-> <<60000>>, notes |-> "called"], [title |-> TitleCEO],
    [status |-> "new"], [nickname |-> "Bo"] }

NextUpdate ==
  \/ \E c \in {NoCriteria, ShortCriteria} : Construct(c)
  \/ \E lead \in ScoringLeadInputs : add_lead(lead)
  \/ \E id \in LeadIds, u \in FieldUpdateInputs : update_lead(id, u)

SpecUpdate == Init /\ [][NextUpdate]_vars

(* Bulk ingestion and export.  Raw records: two valid ones, a valid one     *)
(* whose email is a case variant of the first, one without the email key   *)
(* and one with an unknown status.  A batch is a sequence of distinct      *)
(* records.                                                                *)
RecordAnn ==
  [first_name |-> "Ann", last_name |-> "Lee", email |-> EmailLower,
   company |-> "Acme"]

RecordBob ==
  [first_name |-> "Bob", last_name |-> "Ray", email |-> EmailOther,
   company |-> "Initech", lead_source |-> "'website'", status |-> "'new'",
   decision_maker |-> TRUE, budget |-> <<120000>>, company_size |-> <<1200>>,
   pain_points |-> HotLead(NoId, EmailOther).pain_points,
   timeline |-> <<"immediate">>]

RecordAnnUpper == [RecordAnn EXCEPT !.email = EmailUpper]

RecordNoEmail ==
  [first_name |-> "Ann", last_name |-> "Lee", company |-> "Acme"]

RecordBadStatus ==
  [first_name |-> "Bob", last_name |-> "Ray", email |-> EmailOther,
   company |-> "Initech", status |-> "'hot'"]

Records ==
  { RecordAnn, RecordBob, RecordAnnUpper, RecordNoEmail, RecordBadStatus }

Batches ==
  UNION { {data \in [1..n -> Records] :
             \A i, j \in 1..n : i # j => data[i] # data[j]} :
          n \in 0..MaxBatch }

NextIngest ==
  \/ \E c \in {NoCriteria, ShortCriteria} : Construct(c)
  \/ \E synthetic_data \in Batches :
        create_lead_objects_from_data(synthetic_data)
  \/ \E lead \in {ColdLead(NoId, EmailLower), HotLead(NoId, EmailOther)} :
        add_lead(lead)
  \/ \E id \in LeadIds : delete_lead(id)
  \/ export_leads_json

SpecIngest == Init /\ [][NextIngest]_vars

(* Adds that fail: a blank required field, a duplicate email, a company    *)
(* size given as the text of a range.                                      *)
RangeSizeLead(id, email) ==
  [ColdLead(id, email) EXCEPT !.company_size = <<"str", "50-200">>]

FailLeadInputs ==
  { ColdLead(NoId, EmailLower), HotLead(NoId, EmailOther),
    BlankNameLead(NoId, EmailOther), RangeSizeLead(NoId, EmailOther),
    RangeSizeLead(NoId, EmailUpper) }

NextFail ==
  \/ \E c \in {NoCriteria, ShortCriteria} : Construct(c)
  \/ \E lead \in FailLeadInputs : add_lead(lead)
  \/ \E id \in LeadIds : delete_lead(id)
  \/ \E id \in LeadIds : add_interaction(id, "email")
  \/ \E id \in LeadIds : update_lead(id, [company_size |-> <<120>>])
  \/ \E c \in {DefaultCriteria, FlatCriteria} : update_scoring_criteria(c)

SpecFail == Init /\ [][NextFail]_vars

(* Leads whose company size, budget and revenue lie at and around the     *)
(* lowest band edges: absent, 0, and small positive values.                *)
BandSizes == { <<>>, <<0>>, <<5>> }

BandBudgets == { <<>>, <<0>>, <<5>> }

BandRevenues == { <<>>, <<19>>, <<1000000>> }

BandLeadInputs ==
  { [ColdLead(NoId, e) EXCEPT !.company_size = s, !.budget = b,
                              !.annual_revenue = r] :
      <<e, s, b, r>> \in
         {EmailLower, EmailOther} \X BandSizes \X BandBudgets \X BandRevenues }

NextBands ==
  \/ \E c \in {NoCriteria, ShortCriteria} : Construct(c)
  \/ \E lead \in BandLeadInputs : add_lead(lead)
  \/ \E id \in LeadIds : delete_lead(id)

SpecBands == Init /\ [][NextBands]_vars

(***************************************************************************)
(* Properties of the repository operations (Spec).                         *)
(***************************************************************************)

(* C1: in every reachable state no two stored leads have emails that are   *)
(* equal when compared case-insensitively.                                 *)
C1_EmailUnique ==
  \A i, j \in DOMAIN leads :
     i # j => Lower(leads[i].email) # Lower(leads[j].email)

RequiredFieldsPresent(lead) ==
  lead.first_name # "" /\ lead.last_name # "" /\ lead.email # <<>>
  /\ lead.company # ""

(* Some stored lead has this email up to letter case, but not exactly. *)
CaseVariantStored(email) ==
  \E k \in DOMAIN leads :
     leads[k].email # email /\ Lower(leads[k].email) = Lower(email)

(* C2: add(lead) with an email differing only in letter case from a stored *)
(* lead's fails with an error of a kind other than the one raised for a    *)
(* blank required field, and stored leads and interaction logs are the     *)
(* same after the call as before.                                          *)
C2_DuplicateAddRejected ==
  [][ (lastOp'.op = "add_lead" /\ RequiredFieldsPresent(lastOp'.arg)
       /\ CaseVariantStored(lastOp'.arg.email))
      => /\ lastOp'.result \notin {"id", "None"}
         /\ lastOp'.result #
              add_error(BlankNameLead(NoId, lastOp'.arg.email)).kind
         /\ leads' = leads
         /\ order' = order
         /\ interaction_history' = interaction_history ]_vars

(* C6: update, delete and addInteraction with an id that is not stored     *)
(* return false and leave leads, interaction logs and criteria unchanged.  *)
C6_UnknownIdNoEffect ==
  [][ (lastOp'.op \in {"update_lead", "delete_lead", "add_interaction"}
       /\ lastOp'.id \notin DOMAIN leads)
      => /\ lastOp'.result = "False"
         /\ leads' = leads
         /\ order' = order
         /\ interaction_history' = interaction_history
         /\ scoring_criteria' = scoring_criteria ]_vars

(* An unknown-id call was just refused while another lead, with a logged   *)
(* interaction, is stored.                                                 *)
C6_Witness ==
  /\ lastOp.op \in {"update_lead", "delete_lead", "add_interaction"}
  /\ lastOp.result = "False"
  /\ \E k \in DOMAIN leads : Len(interaction_history[k]) > 0

(***************************************************************************)
(* Properties of scoring under changing criteria (SpecScoring).            *)
(***************************************************************************)
WeightTotal(c) ==
  c.company_size_weight + c.budget_weight + c.authority_weight
  + c.need_weight + c.timeline_weight

(* The five weights sum to 1.0 within 0.001. *)
SumsToOne(c) ==
  WeightUnit - Tolerance < WeightTotal(c) /\ WeightTotal(c) < WeightUnit + Tolerance

(* The score the rubric gives a lead under criteria c. *)
Rubric(lead, c) == Round2(WeightedSum(lead, c))

(* C3: every stored lead's qualification_score is in [0,100].              *)
C3_ScoreInRange ==
  \A k \in DOMAIN leads :
     /\ 0 <= leads[k].qualification_score
     /\ leads[k].qualification_score <= 100 * ScoreUnit

(* C7: updateScoringCriteria with weights whose sum is 0.001 or more away  *)
(* from 1.0 returns false, keeps the criteria and leaves every lead as it  *)
(* was.                                                                    *)
C7_BadCriteriaRejected ==
  [][ (lastOp'.op = "update_scoring_criteria" /\ ~SumsToOne(lastOp'.arg))
      => /\ lastOp'.result = "False"
         /\ scoring_criteria' = scoring_criteria
         /\ leads' = leads ]_vars

(* Criteria were just refused that would have changed a stored score. *)
C7_Witness ==
  /\ lastOp.op = "update_scoring_criteria"
  /\ lastOp.result = "False"
  /\ WeightTotal(lastOp.arg) = 9000
  /\ \E k \in DOMAIN leads :
        leads[k].qualification_score # Rubric(leads[k], lastOp.arg)

(* C8: when updateScoringCriteria returned true, the criteria are the new  *)
(* ones and every stored score is the rounded weighted sum under them.     *)
C8_RescoredUnderNewCriteria ==
  (lastOp.op = "update_scoring_criteria" /\ lastOp.result = "True")
  => /\ scoring_criteria = lastOp.arg
     /\ \A k \in DOMAIN leads :
           leads[k].qualification_score = Rubric(leads[k], lastOp.arg)

(* Two leads were just re-scored, one away from its default-criteria score *)
(* and one away from a score written by an update.                         *)
C8_Witness ==
  /\ lastOp.op = "update_scoring_criteria"
  /\ lastOp.result = "True"
  /\ lastOp.arg = FlatCriteria
  /\ Cardinality(DOMAIN leads) >= 2
  /\ \E k \in DOMAIN leads :
        leads[k].qualification_score # Rubric(leads[k], DefaultCriteria)

(* C9: the criteria in force always sum to 1.0 within tolerance; criteria  *)
(* are refused at construction and by updateScoringCriteria exactly when   *)
(* they do not.                                                            *)
C9_CriteriaAlwaysValid ==
  /\ pc = "ready" => SumsToOne(scoring_criteria)
  /\ (lastOp.op = "__init__" /\ lastOp.arg # NoCriteria)
       => /\ SumsToOne(lastOp.arg) => (pc = "ready" /\ lastOp.result = "None")
          /\ ~SumsToOne(lastOp.arg)
               => (pc = "raised" /\ lastOp.result = "ValueError")
  /\ lastOp.op = "update_scoring_criteria"
       => /\ SumsToOne(lastOp.arg)
               => (lastOp.result = "True" /\ scoring_criteria = lastOp.arg)
          /\ ~SumsToOne(lastOp.arg) => lastOp.result = "False"

(* Criteria just over the tolerance were refused while criteria just       *)
(* inside it are in force.                                                 *)
C9_Witness ==
  /\ pc = "ready"
  /\ lastOp.op = "update_scoring_criteria"
  /\ lastOp.arg = OverCriteria
  /\ lastOp.result = "False"
  /\ scoring_criteria = NearCriteria

(* C10: qualified() is the stored leads scoring at least the current       *)
(* qualified_threshold and hotLeads() those scoring at least the current   *)
(* hot_lead_threshold, in insertion order.                                 *)
C10_ViewsFollowCriteria ==
  /\ get_qualified_leads =
       SelectSeq(Values, LAMBDA l :
          l.qualification_score >= scoring_criteria.qualified_threshold)
  /\ get_hot_leads =
       SelectSeq(Values, LAMBDA l :
          l.qualification_score >= scoring_criteria.hot_lead_threshold)

(***************************************************************************)
(* Properties of re-scoring (SpecStatus, SpecUpdate).                      *)
(***************************************************************************)

(* The status scoring leaves on a lead that had status `before`. *)
ScoredStatus(before, score, c) ==
  IF before = "new"
  THEN IF score >= c.qualified_threshold THEN "qualified" ELSE "unqualified"
  ELSE before

RescoringKeys ==
  {"company_size", "annual_revenue", "budget", "decision_maker", "timeline",
   "pain_points"}

(* C4: scoring changes a status only from NEW, to QUALIFIED when the new   *)
(* score reaches qualified_threshold and to UNQUALIFIED otherwise; every   *)
(* other status survives re-scoring by update and by updateScoringCriteria.*)
C4_StatusOnlyFromNew ==
  [][ /\ (lastOp'.op = "update_scoring_criteria" /\ lastOp'.result = "True")
         => \A k \in DOMAIN leads :
               leads'[k].status =
                 ScoredStatus(leads[k].status, leads'[k].qualification_score,
                              scoring_criteria')
      /\ (lastOp'.op = "update_lead" /\ lastOp'.result = "True"
          /\ (DOMAIN lastOp'.arg) \cap RescoringKeys # {})
         => LET k == lastOp'.id
                before == IF "status" \in DOMAIN lastOp'.arg
                          THEN lastOp'.arg.status ELSE leads[k].status
            IN  leads'[k].status =
                  ScoredStatus(before, leads'[k].qualification_score,
                               scoring_criteria')
      /\ (lastOp'.op = "add_lead" /\ lastOp'.result = "id")
         => leads'[lastOp'.id].status =
              ScoredStatus(lastOp'.arg.status,
                           leads'[lastOp'.id].qualification_score,
                           scoring_criteria') ]_vars

(* A contacted lead was just re-scored to a score at or over the threshold *)
(* and is still contacted.                                                 *)
C4_Witness ==
  /\ lastOp.op = "update_scoring_criteria"
  /\ lastOp.result = "True"
  /\ \E k \in DOMAIN leads :
        /\ leads[k].status = "contacted"
        /\ leads[k].qualification_score >= scoring_criteria.qualified_threshold
        /\ Rubric(leads[k], DefaultCriteria) < DefaultCriteria.qualified_threshold

(* C5: update on a known id re-scores exactly when a qualification field   *)
(* is among the keys: then the stored score is the score of the updated    *)
(* lead (new budget included); otherwise score and status stay as they     *)
(* were, unless the update itself names them.                              *)
C5_RescoreIffQualificationField ==
  [][ (lastOp'.op = "update_lead" /\ lastOp'.id \in DOMAIN leads)
      => LET k == lastOp'.id
             u == lastOp'.arg
             old == leads[k]
             new == leads'[k]
         IN  /\ lastOp'.result = "True"
             /\ (DOMAIN u) \cap RescoringKeys # {}
                  => /\ new.qualification_score = Rubric(new, scoring_criteria)
                     /\ "budget" \in DOMAIN u => new.budget = u.budget
             /\ (DOMAIN u) \cap RescoringKeys = {}
                  => /\ new.qualification_score =
                          IF "qualification_score" \in DOMAIN u
                          THEN u.qualification_score
                          ELSE old.qualification_score
                     /\ new.status =
                          IF "status" \in DOMAIN u THEN u.status
                          ELSE old.status ]_vars

(* A notes-only update just went through on a lead whose stored score is   *)
(* not the score of its current fields, and the stored score stayed.       *)
C5_Witness ==
  /\ lastOp.op = "update_lead"
  /\ lastOp.result = "True"
  /\ DOMAIN lastOp.arg = {"notes"}
  /\ leads[lastOp.id].notes = "called"
  /\ leads[lastOp.id].qualification_score
       # Rubric(leads[lastOp.id], scoring_criteria)

(***************************************************************************)
(* Properties of the score itself (SpecScoring, SpecUpdate).               *)
(***************************************************************************)

(* The five sub-scores of a lead, in the order company size, budget,       *)
(* authority, need, timeline.                                              *)
SubScores(lead) ==
  << score_company_size(lead.company_size),
     score_budget(lead.budget, lead.annual_revenue),
     score_authority(lead.decision_maker, lead.title),
     score_need(lead.pain_points),
     score_timeline(lead.timeline) >>

(* s (hundredths of a point) is the weighted sum of the sub-scores under   *)
(* c rounded to two decimals.                                              *)
IsRoundedWeightedSum(s, lead, c) ==
  LET sub == SubScores(lead)
      x == sub[1] * c.company_size_weight + sub[2] * c.budget_weight
           + sub[3] * c.authority_weight + sub[4] * c.need_weight
           + sub[5] * c.timeline_weight
  IN  2 * Abs(s * (WeightUnit \div ScoreUnit) - x) <= WeightUnit \div ScoreUnit

(* Every optional field of the lead is unset. *)
NoOptionalField(lead) ==
  /\ lead.company_size = <<>> /\ lead.annual_revenue = <<>>
  /\ lead.budget = <<>> /\ lead.decision_maker = FALSE /\ lead.title = <<>>
  /\ lead.pain_points = <<>> /\ lead.timeline = <<>>

(* The leads the last call scored. *)
JustScored ==
  IF lastOp.op = "add_lead" /\ lastOp.result = "id" THEN {lastOp.id}
  ELSE IF lastOp.op = "update_scoring_criteria" /\ lastOp.result = "True"
  THEN DOMAIN leads
  ELSE {}

(* C13: the score written by scoring is the weighted sum of the five       *)
(* sub-scores rounded to 2 decimals; under the default weights a lead with *)
(* sub-scores (100,100,100,70,100) scores 95.5, and a lead added with them *)
(* becomes QUALIFIED and is hot; a lead with no optional field has         *)
(* sub-scores (50,30,40,30,40), scores 38.0 and becomes UNQUALIFIED.       *)
C13_WeightedSumRounded ==
  \A k \in JustScored :
     LET lead == leads[k] IN
     /\ IsRoundedWeightedSum(lead.qualification_score, lead, scoring_criteria)
     /\ NoOptionalField(lead) => SubScores(lead) = <<50, 30, 40, 30, 40>>
     /\ (scoring_criteria = DefaultCriteria
         /\ SubScores(lead) = <<100, 100, 100, 70, 100>>)
          => /\ lead.qualification_score = 9550
             /\ is_hot_lead(lead)
             /\ lastOp.op = "add_lead" => lead.status = "qualified"
     /\ (scoring_criteria = DefaultCriteria
         /\ SubScores(lead) = <<50, 30, 40, 30, 40>>)
          => /\ lead.qualification_score = 3800
             /\ lastOp.op = "add_lead" => lead.status = "unqualified"

(* Under the default criteria a 38.0 lead is stored and a 95.5 lead was    *)
(* just added, qualified and hot.                                          *)
C13_Witness ==
  /\ scoring_criteria = DefaultCriteria
  /\ lastOp.op = "add_lead" /\ lastOp.result = "id"
  /\ SubScores(leads[lastOp.id]) = <<100, 100, 100, 70, 100>>
  /\ leads[lastOp.id].qualification_score = 9550
  /\ leads[lastOp.id].status = "qualified"
  /\ \E k \in DOMAIN leads :
        /\ NoOptionalField(leads[k])
        /\ leads[k].qualification_score = 3800
        /\ leads[k].status = "unqualified"

(* C18: in every state reached by add, update and updateScoringCriteria    *)
(* each stored score is the score of the lead's current fields under the   *)
(* current criteria.                                                       *)
C18_ScoresNeverStale ==
  \A k \in DOMAIN leads :
     leads[k].qualification_score = Rubric(leads[k], scoring_criteria)

(***************************************************************************)
(* Properties of add (Spec).                                               *)
(***************************************************************************)

(* C19: a successful add increases the number of stored leads by one and   *)
(* leaves every lead stored before, and its interaction log, unchanged,    *)
(* whether the id was generated or supplied by the caller.                 *)
C19_AddGrowsByOne ==
  [][ (lastOp'.op = "add_lead" /\ lastOp'.result = "id")
      => /\ Cardinality(DOMAIN leads') = Cardinality(DOMAIN leads) + 1
         /\ \A k \in DOMAIN leads :
               /\ leads'[k] = leads[k]
               /\ interaction_history'[k] = interaction_history[k] ]_vars

(***************************************************************************)
(* Properties of the banded sub-scores (SpecBands).                        *)
(***************************************************************************)

(* C14: for stored leads with given company sizes a <= b (integers >= 0)   *)
(* the company-size sub-score of a is at most that of b, and for stored    *)
(* leads with given budgets a <= b (integers >= 0) and the same revenue    *)
(* the budget sub-score of a is at most that of b.                         *)
C14_BandsMonotone ==
  \A i, j \in DOMAIN leads :
     /\ (leads[i].company_size # <<>> /\ leads[j].company_size # <<>>
         /\ 0 <= leads[i].company_size[1]
         /\ leads[i].company_size[1] <= leads[j].company_size[1])
          => score_company_size(leads[i].company_size)
               <= score_company_size(leads[j].company_size)
     /\ (leads[i].budget # <<>> /\ leads[j].budget # <<>>
         /\ 0 <= leads[i].budget[1]
         /\ leads[i].budget[1] <= leads[j].budget[1]
         /\ leads[i].annual_revenue = leads[j].annual_revenue)
          => score_budget(leads[i].budget, leads[i].annual_revenue)
               <= score_budget(leads[j].budget, leads[j].annual_revenue)

(* The bands of the budget score: 100/80/60/40 from 100000/50000/25000/    *)
(* 10000 and 20 below.                                                     *)
BudgetBands(n) ==
  IF n >= 100000 THEN 100 ELSE IF n >= 50000 THEN 80
  ELSE IF n >= 25000 THEN 60 ELSE IF n >= 10000 THEN 40 ELSE 20

(* C15: the budget sub-score of a stored lead is the band of its budget    *)
(* when a budget (any integer >= 0) is given, the band of 5% of its        *)
(* revenue when only the revenue is given, and 30 only when neither is.    *)
C15_BudgetScore ==
  \A k \in DOMAIN leads :
     LET lead == leads[k]
         sub == score_budget(lead.budget, lead.annual_revenue)
     IN  /\ lead.budget # <<>> => sub = BudgetBands(lead.budget[1])
         /\ (lead.budget = <<>> /\ lead.annual_revenue # <<>>)
              => sub = BudgetBands((lead.annual_revenue[1] * 5) \div 100)
         /\ (lead.budget = <<>> /\ lead.annual_revenue = <<>>) => sub = 30
         /\ sub = 30 => (lead.budget = <<>> /\ lead.annual_revenue = <<>>)

(***************************************************************************)
(* Properties of failing adds (SpecFail).                                  *)
(***************************************************************************)

(* C17: when add fails, for a blank required field, a duplicate email or   *)
(* an error raised while scoring, the stored leads, their order and the    *)
(* interaction logs are the same after the call as before.                 *)
C17_FailedAddNoEffect ==
  [][ (lastOp'.op = "add_lead" /\ lastOp'.result # "id")
      => /\ leads' = leads
         /\ order' = order
         /\ interaction_history' = interaction_history ]_vars

(***************************************************************************)
(* Properties of bulk ingestion and export (SpecIngest).                   *)
(***************************************************************************)

(* The record has the four required fields, none blank, and its            *)
(* lead_source and status, when present, are values of the enumerations.   *)
RecordValid(data) ==
  /\ {"first_name", "last_name", "email", "company"} \subseteq DOMAIN data
  /\ data.first_name # "" /\ data.last_name # "" /\ data.email # <<>>
  /\ data.company # ""
  /\ "lead_source" \in DOMAIN data => data.lead_source \in LeadSourceValues
  /\ "status" \in DOMAIN data => data.status \in LeadStatusValues

(* Record i of the batch is to be added: it is valid and its email equals, *)
(* letter case aside, neither a stored lead's nor an earlier valid         *)
(* record's.                                                               *)
ToBeAdded(synthetic_data, i) ==
  /\ RecordValid(synthetic_data[i])
  /\ \A k \in DOMAIN leads :
        Lower(leads[k].email) # Lower(synthetic_data[i].email)
  /\ \A j \in 1..(i - 1) :
        RecordValid(synthetic_data[j])
          => Lower(synthetic_data[j].email) # Lower(synthetic_data[i].email)

(* C12: bulk ingestion goes through the whole batch: the records added are *)
(* exactly the valid ones that duplicate no stored or earlier email, a     *)
(* failing record adds nothing and stops nothing, and the returned ids are *)
(* the ids of the added records in input order.                            *)
C12_BatchIsolatesFailures ==
  [][ lastOp'.op = "create_lead_objects_from_data"
      => LET data == lastOp'.arg.synthetic_data
             ids == lastOp'.arg.lead_ids
             added == SelectSeq([i \in 1..Len(data) |-> i],
                                LAMBDA i : ToBeAdded(data, i))
         IN  /\ Len(ids) = Len(added)
             /\ \A n \in 1..Len(ids) :
                   /\ ids[n] \notin DOMAIN leads
                   /\ ids[n] \in DOMAIN leads'
                   /\ leads'[ids[n]].email = data[added[n]].email
                   /\ leads'[ids[n]].first_name = data[added[n]].first_name
                   /\ leads'[ids[n]].company = data[added[n]].company
                   /\ interaction_history'[ids[n]] = <<>>
             /\ order' = order \o ids
             /\ DOMAIN leads' = DOMAIN leads \cup {ids[n] : n \in 1..Len(ids)}
             /\ \A k \in DOMAIN leads :
                   /\ leads'[k] = leads[k]
                   /\ interaction_history'[k] = interaction_history[k] ]_vars

(* A batch of three was just ingested whose second record failed and whose *)
(* first and third were added.                                             *)
C12_Witness ==
  /\ lastOp.op = "create_lead_objects_from_data"
  /\ Len(lastOp.arg.synthetic_data) = 3
  /\ ~RecordValid(lastOp.arg.synthetic_data[2])
  /\ Len(lastOp.arg.lead_ids) = 2
  /\ leads[lastOp.arg.lead_ids[1]].email = lastOp.arg.synthetic_data[1].email
  /\ leads[lastOp.arg.lead_ids[2]].email = lastOp.arg.synthetic_data[3].email

RECURSIVE SumOf(_, _)
SumOf(f, S) ==
  IF S = {} THEN 0
  ELSE LET x == CHOOSE y \in S : TRUE IN f[x] + SumOf(f, S \ {x})

(* C16: a lead ingested from a record whose status is "new" or absent is   *)
(* scored and is QUALIFIED when its score reaches qualified_threshold and  *)
(* UNQUALIFIED otherwise, and the per-status counts sum to the number of   *)
(* stored leads.                                                           *)
C16_IngestedLeadsTransition ==
  lastOp.op = "create_lead_objects_from_data"
  => LET data == lastOp.arg.synthetic_data
         ids == lastOp.arg.lead_ids
     IN  /\ \A n \in 1..Len(ids) :
               LET lead == leads[ids[n]] IN
               (\E j \in 1..Len(data) :
                   /\ RecordValid(data[j])
                   /\ data[j].email = lead.email
                   /\ Get(data[j], "status", "'new'") = "'new'")
               => /\ lead.qualification_score
                       = Rubric(lead, scoring_criteria)
                  /\ lead.status =
                       IF lead.qualification_score
                            >= scoring_criteria.qualified_threshold
                       THEN "qualified" ELSE "unqualified"
         /\ SumOf(status_breakdown, LeadStatusMembers)
              = Cardinality(DOMAIN leads)

EmptyRepo == [leads |-> <<>>, order |-> <<>>, interaction_history |-> <<>>]

(* The str a status or lead_source stands for, member or str. *)
AsValue(x) ==
  IF x \in LeadStatusMembers \cup LeadSourceMembers THEN Value(x) ELSE x

SameFields(a, b) ==
  /\ AsValue(a.status) = AsValue(b.status)
  /\ AsValue(a.lead_source) = AsValue(b.lead_source)
  /\ \A f \in {"first_name", "last_name", "email", "company", "title",
               "company_size", "annual_revenue", "budget", "decision_maker",
               "pain_points", "timeline", "qualification_score", "notes"} :
        a[f] = b[f]

(* C11: exportJson on a repository with at least one lead succeeds, the    *)
(* document has one entry per stored id, and ingesting its entries into an *)
(* empty repository under the same criteria gives leads with the same      *)
(* field values and scores.                                                *)
C11_ExportRoundTrip ==
  (lastOp.op = "export_leads_json" /\ DOMAIN leads # {})
  => /\ lastOp.result = "str"
     /\ DOMAIN lastOp.arg.leads = DOMAIN leads
     /\ LET back == ingest(EmptyRepo, <<>>,
                           [i \in 1..Len(order) |-> lastOp.arg.leads[order[i]]],
                           scoring_criteria)
        IN  /\ Len(back.lead_ids) = Len(order)
            /\ \A i \in 1..Len(order) :
                  SameFields(back.repo.leads[back.lead_ids[i]],
                             leads[order[i]])

====
